---- MODULE Spec2Model ----
(***************************************************************************)
(* Study material pipeline (backend/pipeline/main.py): the intake          *)
(* handlers, the ephemeral status documents, the read endpoints and the    *)
(* background pipeline, as a state machine over the external stores.       *)
(*                                                                         *)
(* Every call to an external store (Supabase table, Firestore document,    *)
(* Storage bucket) is one step: the stores are shared with other workers   *)
(* and with the front end's listeners, so the state between two calls of   *)
(* one handler is observable.                                              *)
(***************************************************************************)
EXTENDS Integers, Sequences, FiniteSets, TLC

(* ------------------------------ bounds --------------------------------- *)
\* number of intake requests in one behaviour (each is served once)
MaxReqs == 2
\* the clock stops at this hour
MaxTime == 36
\* pipeline runs in one behaviour of the regeneration scenario
MaxRuns == 4

(* --------------------------- program constants ------------------------- *)
\* timedelta(hours=24) of update_processing_status
TTL_HOURS == 24

Reqs == 1..MaxReqs
FileIds == Reqs
\* positions in the list of background tasks
TaskIds == 1..(MaxReqs + MaxRuns)
\* an identifier uuid4 never returned
UnknownId == MaxReqs + 1
Users == {"u1", "u2"}
NULL == "NULL"
Emails == {NULL, "a@x"}

\* SUPPORTED_TYPES: MIME type -> extractor category
SUPPORTED_TYPES ==
    [t \in {"application/pdf",
            "application/vnd.openxmlformats-officedocument.wordprocessingml.document",
            "application/vnd.openxmlformats-officedocument.presentationml.presentation",
            "image/png", "image/jpeg", "image/webp",
            "audio/mpeg", "audio/wav", "audio/webm",
            "video/mp4", "video/webm"} |->
       CASE t = "application/pdf" -> "pdf"
         [] t = "application/vnd.openxmlformats-officedocument.wordprocessingml.document" -> "docx"
         [] t = "application/vnd.openxmlformats-officedocument.presentationml.presentation" -> "pptx"
         [] t \in {"image/png", "image/jpeg", "image/webp"} -> "image"
         [] t \in {"audio/mpeg", "audio/wav", "audio/webm"} -> "audio"
         [] OTHER -> "video"]

\* content types the modelled clients send: one supported, one not
ContentTypes == {"application/pdf", "text/plain"}

\* the three intake handlers
Ops == {"upload_file", "upload_url", "upload_text"}

VARIABLES
    users_profile,       \* Supabase table users_profile: sequence of rows
    files,               \* Supabase table files: sequence of rows, in insertion order
    documents_metadata,  \* Supabase table documents_metadata: set of rows
    summaries,           \* Supabase table summaries: sequence of rows
    processing_status,   \* Firestore collection processing_status: file_id -> document
    storage,             \* Firebase Storage bucket: set of blob paths
    tasks,               \* background tasks added by add_task, with their position
    reqs,                \* the intake requests and each handler's position
    resp,                \* the response of the last read request
    now,                 \* datetime.utcnow(), in hours
    status_log           \* history: the status writes made for each file_id, in order

vars == <<users_profile, files, documents_metadata, summaries, processing_status,
          storage, tasks, reqs, resp, now, status_log>>

stores == <<users_profile, files, documents_metadata, summaries, processing_status,
            storage, status_log>>

(* ------------------------------ helpers -------------------------------- *)
Max(S) == CHOOSE x \in S : \A y \in S : y <= x

\* str(uuid.uuid4()): a fresh identifier for each call; request r draws r
uuid4(r) == r

\* the row of request r before it is received
IdleReq ==
    [pc |-> "idle", op |-> "none", uid |-> "none", email |-> NULL,
     content_type |-> "none", file_id |-> 0, found |-> FALSE, found_email |-> NULL,
     wrote |-> {}, scheduled |-> 0, status_code |-> 0, header |-> "none"]

NoResp ==
    [op |-> "none", file_id |-> 0, caller |-> "none", status_code |-> 0,
     status |-> "none", progress |-> 0, message |-> "none",
     document_id |-> 0, version |-> 0, id |-> 0, materials |-> <<>>,
     header |-> "none"]

Init ==
    /\ users_profile = <<>>
    /\ files = <<>>
    /\ documents_metadata = {}
    /\ summaries = <<>>
    /\ processing_status = <<>>
    /\ storage = {}
    /\ tasks = <<>>
    /\ reqs = [r \in Reqs |-> IdleReq]
    /\ resp = NoResp
    /\ now = 0
    /\ status_log = [f \in FileIds |-> <<>>]

(* --------------------------- auth dependency --------------------------- *)
\* the ID tokens a client may present; verify_id_token accepts the valid ones
BadToken == [valid |-> FALSE, uid |-> "none", email |-> NULL]

Tokens ==
    {[valid |-> TRUE, uid |-> u, email |-> e] : u \in Users, e \in Emails}
      \cup {BadToken}

\* the Authorization header: absent (scheme ""), another scheme, or "Bearer <token>"
\* (a header without "Bearer " carries nothing the handler reads)
Authorizations ==
    {[scheme |-> s, token |-> BadToken] : s \in {"", "Basic"}}
      \cup {[scheme |-> "Bearer", token |-> t] : t \in Tokens}

\* the same headers, with tokens that carry no email claim
PlainAuthorizations == {a \in Authorizations : a.token.email = NULL}

\* the headers of the polling clients: a bearer token, valid or not
PollAuthorizations == {a \in PlainAuthorizations : a.scheme = "Bearer"}

\* what a request carried as its Authorization header
HeaderKind(authorization) ==
    IF authorization.scheme = "" THEN "missing"
    ELSE IF authorization.scheme # "Bearer" THEN "other scheme"
    ELSE IF authorization.token.valid THEN "valid token" ELSE "invalid token"

\* a dependency that takes the uid of any bearer token without verifying it
get_firebase_user_unverified(authorization) ==
    IF authorization.scheme # "Bearer"
    THEN [status_code |-> 401, uid |-> "none", email |-> NULL]
    ELSE [status_code |-> 200, uid |-> authorization.token.uid,
          email |-> authorization.token.email]

\* get_firebase_user: 401 unless the header starts with "Bearer " and the token verifies
get_firebase_user(authorization) ==
    IF authorization.scheme # "Bearer"
    THEN [status_code |-> 401, uid |-> "none", email |-> NULL]
    ELSE IF ~authorization.token.valid
         THEN [status_code |-> 401, uid |-> "none", email |-> NULL]
         ELSE [status_code |-> 200, uid |-> authorization.token.uid,
               email |-> authorization.token.email]

(* --------------------------- status tracking --------------------------- *)
\* a status document that keeps the message of the document it replaces
StatusDoc_merging(firebase_uid, file_id, status, progress, message) ==
    [firebase_uid |-> firebase_uid, file_id |-> file_id, status |-> status,
     progress |-> progress,
     message |-> IF file_id \in DOMAIN processing_status
                 THEN processing_status[file_id].message ELSE message,
     expire_at |-> now + TTL_HOURS]

\* the document update_processing_status sets
StatusDoc(firebase_uid, file_id, status, progress, message) ==
    [firebase_uid |-> firebase_uid, file_id |-> file_id, status |-> status,
     progress |-> progress, message |-> message,
     expire_at |-> now + TTL_HOURS]

\* a set() that replaces the collection: the documents of other ids are lost
update_processing_status_alone(firebase_uid, file_id, status, progress, message) ==
    /\ processing_status' =
         [f \in {file_id} |-> StatusDoc(firebase_uid, file_id, status, progress, message)]
    /\ status_log' = [status_log EXCEPT ![file_id] =
                        Append(@, [firebase_uid |-> firebase_uid, status |-> status,
                                   progress |-> progress, message |-> message])]

\* update_processing_status: status_ref.set(...) replaces the whole document
update_processing_status(firebase_uid, file_id, status, progress, message) ==
    /\ processing_status' =
         [f \in DOMAIN processing_status \cup {file_id} |->
            IF f = file_id
            THEN StatusDoc(firebase_uid, file_id, status, progress, message)
            ELSE processing_status[f]]
    /\ status_log' = [status_log EXCEPT ![file_id] =
                        Append(@, [firebase_uid |-> firebase_uid, status |-> status,
                                   progress |-> progress, message |-> message])]

(* ------------------------------ intake --------------------------------- *)
\* a request arrives: the auth dependency runs before the handler body
ReceiveFrom(r, headers) ==
    /\ reqs[r].pc = "idle"
    /\ IF r = 1 THEN TRUE ELSE reqs[r - 1].pc # "idle"
    /\ \E op \in Ops, authorization \in headers, ct \in ContentTypes :
         LET user == get_firebase_user(authorization) IN
         /\ op # "upload_file" => ct = "application/pdf"
         /\ reqs' = [reqs EXCEPT ![r] =
              IF user.status_code = 401
              THEN [@ EXCEPT !.pc = "done", !.op = op, !.status_code = 401,
                             !.header = HeaderKind(authorization)]
              ELSE [@ EXCEPT !.pc = "ensure_select", !.op = op, !.uid = user.uid,
                             !.header = HeaderKind(authorization),
                             !.email = user.email,
                             !.content_type = IF op = "upload_file" THEN ct ELSE "none"]]
    /\ UNCHANGED <<stores, tasks, resp, now>>

Receive(r) == ReceiveFrom(r, Authorizations)

\* a request from a client whose token carries no email claim
ReceivePlain(r) == ReceiveFrom(r, PlainAuthorizations)

\* ensure_user_profile, the select: result.data for this firebase_uid
ProfileRows(firebase_uid) ==
    SelectSeq(users_profile, LAMBDA row : row.firebase_uid = firebase_uid)

EnsureSelect(r) ==
    /\ reqs[r].pc = "ensure_select"
    /\ LET data == ProfileRows(reqs[r].uid) IN
       reqs' = [reqs EXCEPT ![r] =
          [@ EXCEPT !.pc = "ensure_write",
                    !.found = (data # <<>>),
                    !.found_email = IF data # <<>> THEN data[1].email ELSE NULL]]
    /\ UNCHANGED <<stores, tasks, resp, now>>

\* the handler position after ensure_user_profile returns
AfterProfile(op) == IF op = "upload_file" THEN "validate" ELSE "insert_files"

\* a handler that goes on without creating the missing profile
EnsureWrite_no_insert(r) ==
    /\ reqs[r].pc = "ensure_write"
    /\ reqs' = [reqs EXCEPT ![r] = [@ EXCEPT !.pc = AfterProfile(reqs[r].op)]]
    /\ UNCHANGED <<stores, tasks, resp, now>>

\* ensure_user_profile, the write: insert if the select found nothing, patch the
\* email if the row found has none and the token carries one, else nothing
EnsureWrite(r) ==
    /\ reqs[r].pc = "ensure_write"
    /\ LET q == reqs[r] IN
       IF ~q.found
       THEN /\ users_profile' = Append(users_profile,
                                   [firebase_uid |-> q.uid, email |-> q.email])
            /\ reqs' = [reqs EXCEPT ![r] =
                 [@ EXCEPT !.pc = AfterProfile(q.op), !.wrote = @ \cup {"users_profile"}]]
       ELSE IF q.email # NULL /\ q.found_email = NULL
       THEN /\ users_profile' =
                 [i \in 1..Len(users_profile) |->
                    IF users_profile[i].firebase_uid = q.uid
                    THEN [users_profile[i] EXCEPT !.email = q.email]
                    ELSE users_profile[i]]
            /\ reqs' = [reqs EXCEPT ![r] =
                 [@ EXCEPT !.pc = AfterProfile(q.op), !.wrote = @ \cup {"users_profile"}]]
       ELSE /\ users_profile' = users_profile
            /\ reqs' = [reqs EXCEPT ![r] = [@ EXCEPT !.pc = AfterProfile(q.op)]]
    /\ UNCHANGED <<files, documents_metadata, summaries, processing_status, storage,
                   status_log, tasks, resp, now>>

\* IntakeStatus with upload_file reporting 20 for "uploaded"
IntakeStatus_uploaded_20(op) ==
    CASE op = "upload_file" ->
           [status |-> "uploaded", progress |-> 20, message |-> "File uploaded successfully"]
      [] op = "upload_url" ->
           [status |-> "extracting", progress |-> 30,
            message |-> "Extracting content from URL..."]
      [] OTHER ->
           [status |-> "summarizing", progress |-> 50, message |-> "Generating summary..."]

\* IntakeStatus with upload_url reporting 75 for "extracting"
IntakeStatus_extracting_75(op) ==
    CASE op = "upload_file" ->
           [status |-> "uploaded", progress |-> 25, message |-> "File uploaded successfully"]
      [] op = "upload_url" ->
           [status |-> "extracting", progress |-> 75,
            message |-> "Extracting content from URL..."]
      [] OTHER ->
           [status |-> "summarizing", progress |-> 50, message |-> "Generating summary..."]

\* the initial status an intake handler writes once the records are inserted
IntakeStatus(op) ==
    CASE op = "upload_file" ->
           [status |-> "uploaded", progress |-> 25, message |-> "File uploaded successfully"]
      [] op = "upload_url" ->
           [status |-> "extracting", progress |-> 30,
            message |-> "Extracting content from URL..."]
      [] OTHER ->
           [status |-> "summarizing", progress |-> 50, message |-> "Generating summary..."]

\* the background function an intake handler hands to add_task
BackgroundFn(op) ==
    CASE op = "upload_file" -> "process_file"
      [] op = "upload_url" -> "process_url"
      [] OTHER -> "process_text"

\* the position at which each background function starts
FirstStage(fn) ==
    CASE fn = "process_file" -> "begin"
      [] fn = "process_url" -> "extract"
      [] OTHER -> "summarize"

\* a task that is added but never run
NewTask_never_run(fn, firebase_uid, file_id) ==
    [fn |-> fn, firebase_uid |-> firebase_uid, file_id |-> file_id,
     pc |-> "done", maxv |-> 0]

NewTask(fn, firebase_uid, file_id) ==
    [fn |-> fn, firebase_uid |-> firebase_uid, file_id |-> file_id,
     pc |-> FirstStage(fn), maxv |-> 0]

\* upload_file writing the first status before it checks the MIME type
Validate_status_first(r) ==
    /\ reqs[r].pc = "validate"
    /\ LET q == reqs[r] IN
       /\ update_processing_status(q.uid, uuid4(r), "uploading", 10, "Uploading file...")
       /\ reqs' = [reqs EXCEPT ![r] =
            IF q.content_type \notin DOMAIN SUPPORTED_TYPES
            THEN [@ EXCEPT !.pc = "done", !.status_code = 400,
                           !.wrote = @ \cup {"processing_status"}]
            ELSE [@ EXCEPT !.pc = "blob_upload", !.file_id = uuid4(r),
                           !.wrote = @ \cup {"processing_status"}]]
    /\ UNCHANGED <<users_profile, files, documents_metadata, summaries, storage,
                   tasks, resp, now>>

\* upload_file going on to the upload without writing the status "uploading"
Validate_without_status(r) ==
    /\ reqs[r].pc = "validate"
    /\ reqs' = [reqs EXCEPT ![r] =
         IF @.content_type \notin DOMAIN SUPPORTED_TYPES
         THEN [@ EXCEPT !.pc = "done", !.status_code = 400]
         ELSE [@ EXCEPT !.pc = "blob_upload", !.file_id = uuid4(r)]]
    /\ UNCHANGED <<stores, tasks, resp, now>>

\* upload_file: the MIME check, then the file id and the first status write
Validate(r) ==
    /\ reqs[r].pc = "validate"
    /\ LET q == reqs[r] IN
       IF q.content_type \notin DOMAIN SUPPORTED_TYPES
       THEN /\ reqs' = [reqs EXCEPT ![r] = [@ EXCEPT !.pc = "done", !.status_code = 400]]
            /\ UNCHANGED <<processing_status, status_log>>
       ELSE /\ update_processing_status(q.uid, uuid4(r), "uploading", 10,
                                        "Uploading file...")
            /\ reqs' = [reqs EXCEPT ![r] =
                 [@ EXCEPT !.pc = "blob_upload", !.file_id = uuid4(r),
                           !.wrote = @ \cup {"processing_status"}]]
    /\ UNCHANGED <<users_profile, files, documents_metadata, summaries, storage,
                   tasks, resp, now>>

\* upload_file: blob.upload_from_string at users/<uid>/uploads/<file_id>.<ext>
BlobUpload(r) ==
    /\ reqs[r].pc = "blob_upload"
    /\ storage' = storage \cup {[firebase_uid |-> reqs[r].uid, file_id |-> reqs[r].file_id]}
    /\ reqs' = [reqs EXCEPT ![r] =
         [@ EXCEPT !.pc = "insert_files", !.wrote = @ \cup {"storage"}]]
    /\ UNCHANGED <<users_profile, files, documents_metadata, summaries,
                   processing_status, status_log, tasks, resp, now>>

\* the file_type column of the row an intake handler inserts
FileType(q) ==
    IF q.op = "upload_file" THEN SUPPORTED_TYPES[q.content_type] ELSE "url"

\* supabase.table("files").insert(metadata); upload_url and upload_text draw
\* the file id just before
InsertFiles(r) ==
    /\ reqs[r].pc = "insert_files"
    /\ LET q == reqs[r]
           fid == IF q.op = "upload_file" THEN q.file_id ELSE uuid4(r) IN
       /\ files' = Append(files, [file_id |-> fid, firebase_uid |-> q.uid,
                                  file_type |-> FileType(q)])
       /\ reqs' = [reqs EXCEPT ![r] =
            [@ EXCEPT !.pc = "insert_meta", !.file_id = fid,
                      !.wrote = @ \cup {"files"}]]
    /\ UNCHANGED <<users_profile, documents_metadata, summaries, processing_status,
                   storage, status_log, tasks, resp, now>>

\* supabase.table("documents_metadata").insert({id, firebase_uid})
InsertMeta(r) ==
    /\ reqs[r].pc = "insert_meta"
    /\ documents_metadata' = documents_metadata \cup
           {[id |-> reqs[r].file_id, firebase_uid |-> reqs[r].uid]}
    /\ reqs' = [reqs EXCEPT ![r] =
         [@ EXCEPT !.pc = "intake_status", !.wrote = @ \cup {"documents_metadata"}]]
    /\ UNCHANGED <<users_profile, files, summaries, processing_status, storage,
                   status_log, tasks, resp, now>>

\* a handler that answers with success without handing the submission to a task
IntakeDone_no_task(r) ==
    /\ reqs[r].pc = "intake_status"
    /\ LET q == reqs[r]
           st == IntakeStatus(q.op) IN
       /\ update_processing_status(q.uid, q.file_id, st.status, st.progress, st.message)
       /\ reqs' = [reqs EXCEPT ![r] =
            [@ EXCEPT !.pc = "done", !.status_code = 200,
                      !.wrote = @ \cup {"processing_status"}]]
    /\ UNCHANGED <<users_profile, files, documents_metadata, summaries, storage,
                   tasks, resp, now>>

\* the status write after the inserts, then add_task and the success response
IntakeDone(r) ==
    /\ reqs[r].pc = "intake_status"
    /\ LET q == reqs[r]
           st == IntakeStatus(q.op) IN
       /\ update_processing_status(q.uid, q.file_id, st.status, st.progress, st.message)
       /\ tasks' = Append(tasks, NewTask(BackgroundFn(q.op), q.uid, q.file_id))
       /\ reqs' = [reqs EXCEPT ![r] =
            [@ EXCEPT !.pc = "done", !.status_code = 200, !.scheduled = @ + 1,
                      !.wrote = @ \cup {"processing_status"}]]
    /\ UNCHANGED <<users_profile, files, documents_metadata, summaries, storage,
                   resp, now>>

\* the positions of upload_file inside its try block
TryBlock == {"blob_upload", "insert_files", "insert_meta", "intake_status"}

\* the positions at which the next step is a call to an external store
StoreCall(q) ==
    \/ q.pc \in {"ensure_select", "blob_upload", "insert_files", "insert_meta",
                 "intake_status", "except"}
    \/ q.pc = "ensure_write" /\ (~q.found \/ (q.email # NULL /\ q.found_email = NULL))
    \/ q.pc = "validate" /\ q.content_type \in DOMAIN SUPPORTED_TYPES

\* the store call at the handler's position raises: inside the try block of
\* upload_file the except clause runs next, anywhere else the request fails
StoreError(r) ==
    /\ StoreCall(reqs[r])
    /\ reqs' = [reqs EXCEPT ![r] =
         IF @.op = "upload_file" /\ @.pc \in TryBlock
         THEN [@ EXCEPT !.pc = "except"]
         ELSE [@ EXCEPT !.pc = "done", !.status_code = 500]]
    /\ UNCHANGED <<stores, tasks, resp, now>>

\* an except clause that still hands the file to the background task
Except_schedules_task(r) ==
    /\ reqs[r].pc = "except"
    /\ update_processing_status(reqs[r].uid, reqs[r].file_id, "error", 0, "str(e)")
    /\ tasks' = Append(tasks, NewTask("process_file", reqs[r].uid, reqs[r].file_id))
    /\ reqs' = [reqs EXCEPT ![r] =
         [@ EXCEPT !.pc = "done", !.status_code = 500, !.scheduled = @ + 1,
                   !.wrote = @ \cup {"processing_status"}]]
    /\ UNCHANGED <<users_profile, files, documents_metadata, summaries, storage,
                   resp, now>>

\* upload_file, except clause: the error status, then HTTP 500
Except(r) ==
    /\ reqs[r].pc = "except"
    /\ update_processing_status(reqs[r].uid, reqs[r].file_id, "error", 0, "str(e)")
    /\ reqs' = [reqs EXCEPT ![r] =
         [@ EXCEPT !.pc = "done", !.status_code = 500,
                   !.wrote = @ \cup {"processing_status"}]]
    /\ UNCHANGED <<users_profile, files, documents_metadata, summaries, storage,
                   tasks, resp, now>>

(* ----------------------- background pipeline --------------------------- *)
\* (extractors.process_file / process_url / process_text)
SetTask(t, pc, maxv) == tasks' = [tasks EXCEPT ![t] = [@ EXCEPT !.pc = pc, !.maxv = maxv]]

\* the versions stored for one submission
Versions(file_id) ==
    {summaries[i].version : i \in {j \in 1..Len(summaries) :
                                     summaries[j].document_id = file_id}}

\* current max version for this submission, or 0 if none exist
MaxVersion(file_id) == IF Versions(file_id) = {} THEN 0 ELSE Max(Versions(file_id))

\* binary-file kind: the pipeline announces the extraction stage
PipeBegin(t) ==
    /\ t \in DOMAIN tasks
    /\ tasks[t].pc = "begin"
    /\ update_processing_status(tasks[t].firebase_uid, tasks[t].file_id,
                                "extracting", 40, "Extracting text...")
    /\ SetTask(t, "extract", 0)
    /\ UNCHANGED <<users_profile, files, documents_metadata, summaries, storage,
                   reqs, resp, now>>

\* extraction (or the URL content fetch) returns text, or fails and the run stops
PipeExtract(t) ==
    /\ t \in DOMAIN tasks
    /\ tasks[t].pc = "extract"
    /\ \E ok \in BOOLEAN :
         IF ok
         THEN /\ update_processing_status(tasks[t].firebase_uid, tasks[t].file_id,
                                          "summarizing", 70, "Generating summary...")
              /\ SetTask(t, "summarize", 0)
         ELSE /\ update_processing_status(tasks[t].firebase_uid, tasks[t].file_id,
                                          "error", 0, "extraction failed")
              /\ SetTask(t, "done", 0)
    /\ UNCHANGED <<users_profile, files, documents_metadata, summaries, storage,
                   reqs, resp, now>>

\* summarization returns text and the run reads the current max version, or
\* summarization fails and the run stops
PipeSummarize(t) ==
    /\ t \in DOMAIN tasks
    /\ tasks[t].pc = "summarize"
    /\ \E ok \in BOOLEAN :
         IF ok
         THEN /\ SetTask(t, "insert_summary", MaxVersion(tasks[t].file_id))
              /\ UNCHANGED <<processing_status, status_log>>
         ELSE /\ update_processing_status(tasks[t].firebase_uid, tasks[t].file_id,
                                          "error", 0, "summarization failed")
              /\ SetTask(t, "done", 0)
    /\ UNCHANGED <<users_profile, files, documents_metadata, summaries, storage,
                   reqs, resp, now>>

\* insert the Summary row with version = 1 + the max version read, or the
\* store write fails and the run stops
PipeInsert(t) ==
    /\ t \in DOMAIN tasks
    /\ tasks[t].pc = "insert_summary"
    /\ \E ok \in BOOLEAN :
         IF ok
         THEN /\ summaries' = Append(summaries,
                   [id |-> Len(summaries) + 1, document_id |-> tasks[t].file_id,
                    version |-> tasks[t].maxv + 1, summary_text |-> t])
              /\ SetTask(t, "complete", tasks[t].maxv)
              /\ UNCHANGED <<processing_status, status_log>>
         ELSE /\ update_processing_status(tasks[t].firebase_uid, tasks[t].file_id,
                                          "error", 0, "store write failed")
              /\ SetTask(t, "done", 0)
              /\ UNCHANGED summaries
    /\ UNCHANGED <<users_profile, files, documents_metadata, storage, reqs, resp, now>>

\* the last status write of a successful run
PipeComplete(t) ==
    /\ t \in DOMAIN tasks
    /\ tasks[t].pc = "complete"
    /\ update_processing_status(tasks[t].firebase_uid, tasks[t].file_id,
                                "complete", 100, "Summary ready")
    /\ SetTask(t, "done", tasks[t].maxv)
    /\ UNCHANGED <<users_profile, files, documents_metadata, summaries, storage,
                   reqs, resp, now>>

(* ---------------------------- read endpoints --------------------------- *)
\* get_status: 404 without a document, 403 for another owner's, else its fields
get_status(file_id, firebase_uid) ==
    IF file_id \notin DOMAIN processing_status
    THEN [NoResp EXCEPT !.op = "get_status", !.file_id = file_id,
                        !.caller = firebase_uid, !.status_code = 404]
    ELSE LET data == processing_status[file_id] IN
         IF data.firebase_uid # firebase_uid
         THEN [NoResp EXCEPT !.op = "get_status", !.file_id = file_id,
                             !.caller = firebase_uid, !.status_code = 403]
         ELSE [NoResp EXCEPT !.op = "get_status", !.file_id = file_id,
                             !.caller = firebase_uid, !.status_code = 200,
                             !.status = data.status, !.progress = data.progress,
                             !.message = data.message]

\* the most recently written row of the submission instead of its greatest version
LatestSummary_most_recent(file_id) ==
    {i \in 1..Len(summaries) :
       /\ summaries[i].document_id = file_id
       /\ \A j \in 1..Len(summaries) : summaries[j].document_id = file_id => j <= i}

\* the rows .eq("document_id", file_id).order("version", desc=True).limit(1) may
\* return: a row of that submission with the greatest version
LatestSummary(file_id) ==
    {i \in 1..Len(summaries) :
       /\ summaries[i].document_id = file_id
       /\ \A j \in 1..Len(summaries) :
            summaries[j].document_id = file_id =>
              summaries[j].version <= summaries[i].version}

\* files rows .eq("file_id", file_id)
FileRows(file_id) == SelectSeq(files, LAMBDA row : row.file_id = file_id)

\* get_summary with the ownership check moved after the summary lookup
get_summary_owner_checked_last(file_id, firebase_uid) ==
    LET base == [NoResp EXCEPT !.op = "get_summary", !.file_id = file_id,
                               !.caller = firebase_uid]
        file_result == FileRows(file_id) IN
    IF file_result = <<>>
    THEN {[base EXCEPT !.status_code = 404, !.message = "File not found"]}
    ELSE IF LatestSummary(file_id) = {}
    THEN {[base EXCEPT !.status_code = 404, !.message = "Summary not found"]}
    ELSE IF file_result[1].firebase_uid # firebase_uid
    THEN {[base EXCEPT !.status_code = 403, !.message = "Access denied"]}
    ELSE {[base EXCEPT !.status_code = 200, !.id = summaries[i].id,
                       !.document_id = summaries[i].document_id,
                       !.version = summaries[i].version] : i \in LatestSummary(file_id)}

\* a handler that answers 200 with an empty body while no Summary row exists
get_summary_empty_ok(file_id, firebase_uid) ==
    LET base == [NoResp EXCEPT !.op = "get_summary", !.file_id = file_id,
                               !.caller = firebase_uid]
        file_result == FileRows(file_id) IN
    IF file_result = <<>>
    THEN {[base EXCEPT !.status_code = 404, !.message = "File not found"]}
    ELSE IF file_result[1].firebase_uid # firebase_uid
    THEN {[base EXCEPT !.status_code = 403, !.message = "Access denied"]}
    ELSE IF LatestSummary(file_id) = {}
    THEN {[base EXCEPT !.status_code = 200]}
    ELSE {[base EXCEPT !.status_code = 200, !.id = summaries[i].id,
                       !.document_id = summaries[i].document_id,
                       !.version = summaries[i].version] : i \in LatestSummary(file_id)}

\* get_summary: the responses the handler can give
get_summary(file_id, firebase_uid) ==
    LET base == [NoResp EXCEPT !.op = "get_summary", !.file_id = file_id,
                               !.caller = firebase_uid]
        file_result == FileRows(file_id) IN
    IF file_result = <<>>
    THEN {[base EXCEPT !.status_code = 404, !.message = "File not found"]}
    ELSE IF file_result[1].firebase_uid # firebase_uid
    THEN {[base EXCEPT !.status_code = 403, !.message = "Access denied"]}
    ELSE IF LatestSummary(file_id) = {}
    THEN {[base EXCEPT !.status_code = 404, !.message = "Summary not found"]}
    ELSE {[base EXCEPT !.status_code = 200, !.id = summaries[i].id,
                       !.document_id = summaries[i].document_id,
                       !.version = summaries[i].version] : i \in LatestSummary(file_id)}

\* the response of a read whose auth dependency fails
Unauthorized(op, file_id) ==
    [NoResp EXCEPT !.op = op, !.file_id = file_id, !.status_code = 401]

\* a response, with the header of the request it answers
Answer(rsp, authorization) == [rsp EXCEPT !.header = HeaderKind(authorization)]

\* GET /api/status/{file_id}
GetStatus(file_id, authorization) ==
    /\ LET user == get_firebase_user(authorization) IN
       resp' = Answer(IF user.status_code = 401
                      THEN Unauthorized("get_status", file_id)
                      ELSE get_status(file_id, user.uid), authorization)
    /\ UNCHANGED <<stores, tasks, reqs, now>>

\* GET /api/summary/{file_id}
GetSummary(file_id, authorization) ==
    /\ LET user == get_firebase_user(authorization) IN
       IF user.status_code = 401
       THEN resp' = Answer(Unauthorized("get_summary", file_id), authorization)
       ELSE resp' \in {Answer(rsp, authorization) : rsp \in get_summary(file_id, user.uid)}
    /\ UNCHANGED <<stores, tasks, reqs, now>>

\* latest_summary of a file without Summary rows: None (texts are numbered from 1)
None == 0

Reverse(s) == [i \in 1..Len(s) |-> s[Len(s) + 1 - i]]

\* the files of the user in the order of their insertion, oldest first
FilesOf_oldest_first(firebase_uid) ==
    SelectSeq(files, LAMBDA row : row.firebase_uid = firebase_uid)

\* files rows .eq("firebase_uid", firebase_uid).order("upload_time", desc=True):
\* upload_time is the time of the insert, so the latest insert comes first
FilesOf(firebase_uid) ==
    Reverse(SelectSeq(files, LAMBDA row : row.firebase_uid = firebase_uid))

\* an entry that reports the summary text but never sets has_summary
Material_flag_unset(file, i) ==
    [file_id |-> file.file_id, file_type |-> file.file_type,
     has_summary |-> FALSE,
     latest_summary |-> IF i # 0 THEN summaries[i].summary_text ELSE None]

\* one entry of materials, from a files row and the summaries row the query
\* returned for it (0: the query returned no row)
Material(file, i) ==
    [file_id |-> file.file_id, file_type |-> file.file_type,
     has_summary |-> i # 0,
     latest_summary |-> IF i # 0 THEN summaries[i].summary_text ELSE None]

\* get_materials: the lists the handler can return
get_materials(firebase_uid) ==
    LET files_result == FilesOf(firebase_uid)
        summary_result(k) ==
            IF LatestSummary(files_result[k].file_id) = {}
            THEN {0} ELSE LatestSummary(files_result[k].file_id) IN
    {[k \in 1..Len(files_result) |-> Material(files_result[k], c[k])] :
        c \in {d \in [1..Len(files_result) -> 0..Len(summaries)] :
                 \A k \in 1..Len(files_result) : d[k] \in summary_result(k)}}

\* GET /api/materials
GetMaterials(authorization) ==
    /\ LET user == get_firebase_user(authorization) IN
       IF user.status_code = 401
       THEN resp' = Answer(Unauthorized("get_materials", 0), authorization)
       ELSE resp' \in {Answer([NoResp EXCEPT !.op = "get_materials",
                                             !.caller = user.uid,
                                             !.status_code = 200,
                                             !.materials = m], authorization) :
                          m \in get_materials(user.uid)}
    /\ UNCHANGED <<stores, tasks, reqs, now>>

(* ------------------------ clock and document TTL ----------------------- *)
\* time passes
Tick ==
    /\ now + TTL_HOURS \div 2 <= MaxTime
    /\ now' = now + TTL_HOURS \div 2
    /\ UNCHANGED <<stores, tasks, reqs, resp>>

\* Firestore's TTL policy deletes a document some time after its expire_at
Expire(file_id) ==
    /\ file_id \in DOMAIN processing_status
    /\ processing_status[file_id].expire_at <= now
    /\ processing_status' = [f \in DOMAIN processing_status \ {file_id} |->
                               processing_status[f]]
    /\ UNCHANGED <<users_profile, files, documents_metadata, summaries, storage,
                   status_log, tasks, reqs, resp, now>>

(* ---------------------------- specification ---------------------------- *)
\* the steps of an intake handler after the request is received
Handler(r) ==
    \/ EnsureSelect(r)
    \/ EnsureWrite(r)
    \/ Validate(r)
    \/ BlobUpload(r)
    \/ InsertFiles(r)
    \/ InsertMeta(r)
    \/ IntakeDone(r)
    \/ StoreError(r)
    \/ Except(r)

Pipeline(t) ==
    \/ PipeBegin(t)
    \/ PipeExtract(t)
    \/ PipeSummarize(t)
    \/ PipeInsert(t)
    \/ PipeComplete(t)

\* intake and the background pipeline
Next ==
    \/ \E r \in Reqs : Receive(r)
    \/ \E r \in Reqs : Handler(r)
    \/ \E t \in TaskIds : Pipeline(t)

Spec == Init /\ [][Next]_vars

\* intake and pipeline for clients whose tokens carry no email
NextPlain ==
    \/ \E r \in Reqs : ReceivePlain(r)
    \/ \E r \in Reqs : Handler(r)
    \/ \E t \in TaskIds : Pipeline(t)

\* ... with clients polling the status endpoint
NextStatus ==
    \/ NextPlain
    \/ \E f \in FileIds \cup {UnknownId}, a \in PollAuthorizations : GetStatus(f, a)

SpecStatus == Init /\ [][NextStatus]_vars

\* ... with clients reading summaries
NextSummary ==
    \/ NextPlain
    \/ \E f \in FileIds \cup {UnknownId}, a \in PollAuthorizations : GetSummary(f, a)

SpecSummary == Init /\ [][NextSummary]_vars

\* ... with the clock and Firestore's TTL deletion
NextTTL ==
    \/ NextPlain
    \/ Tick
    \/ \E f \in FileIds : Expire(f)

SpecTTL == Init /\ [][NextTTL]_vars

\* ... with clients listing their materials
NextMaterials ==
    \/ NextPlain
    \/ \E a \in PollAuthorizations : GetMaterials(a)

SpecMaterials == Init /\ [][NextMaterials]_vars

\* the headers that do not authenticate: absent, another scheme, a bad token
BadAuthorizations ==
    {a \in PlainAuthorizations : HeaderKind(a) # "valid token"}

\* ... with clients that present no valid credentials to the read routes
NextAuth ==
    \/ NextPlain
    \/ \E f \in FileIds, a \in BadAuthorizations : GetStatus(f, a)
    \/ \E f \in FileIds, a \in BadAuthorizations : GetSummary(f, a)
    \/ \E a \in BadAuthorizations : GetMaterials(a)

SpecAuth == Init /\ [][NextAuth]_vars

\* intake and pipeline, where every background task that can take a step
\* eventually takes one: the event loop runs each added task, and every call a
\* task awaits returns or raises
SpecLive ==
    /\ Init
    /\ [][NextPlain]_vars
    /\ \A t \in TaskIds : WF_vars(Pipeline(t))

(* ------------------------- profile scenario ---------------------------- *)
\* the email claims of the clients of this scenario: none, or one of two addresses
ProfileEmails == Emails \cup {"b@x"}

\* their headers: a bearer token that verifies
ProfileAuthorizations ==
    {[scheme |-> "Bearer", token |-> [valid |-> TRUE, uid |-> u, email |-> e]] :
        u \in Users, e \in ProfileEmails}

\* an upload_file request with an unsupported content type: the handler runs
\* ensure_user_profile and then returns 400
ReceiveProfile(r) ==
    /\ ReceiveFrom(r, ProfileAuthorizations)
    /\ reqs'[r].op = "upload_file"
    /\ reqs'[r].content_type \notin DOMAIN SUPPORTED_TYPES

\* the response of a request that drew no identifier has been sent: the server
\* keeps nothing of the request and takes the next one
Close(r) ==
    /\ reqs[r].pc = "done"
    /\ reqs[r].file_id = 0
    /\ reqs' = [reqs EXCEPT ![r] = IdleReq]
    /\ UNCHANGED <<stores, tasks, resp, now>>

\* any number of rejected uploads, at most MaxReqs of them in flight
NextProfile ==
    \/ \E r \in Reqs : ReceiveProfile(r)
    \/ \E r \in Reqs : EnsureSelect(r)
    \/ \E r \in Reqs : EnsureWrite(r)
    \/ \E r \in Reqs : Validate(r)
    \/ \E r \in Reqs : StoreError(r)
    \/ \E r \in Reqs : Close(r)

SpecProfile == Init /\ [][NextProfile]_vars

(* ----------------------- regeneration scenario ------------------------- *)
\* the request row of an accepted upload_text
AcceptedText(r, firebase_uid) ==
    [IdleReq EXCEPT !.pc = "done", !.op = "upload_text", !.uid = firebase_uid,
                    !.file_id = uuid4(r), !.scheduled = 1, !.status_code = 200,
                    !.header = "valid token",
                    !.wrote = {"users_profile", "files", "documents_metadata",
                               "processing_status"}]

\* the state after two users have each had one text note accepted and the
\* pipeline of the second note has run to its end
TwoTextNotes ==
    /\ users_profile = <<[firebase_uid |-> "u1", email |-> NULL],
                         [firebase_uid |-> "u2", email |-> NULL]>>
    /\ files = <<[file_id |-> 1, firebase_uid |-> "u1", file_type |-> "url"],
                 [file_id |-> 2, firebase_uid |-> "u2", file_type |-> "url"]>>
    /\ documents_metadata = {[id |-> 1, firebase_uid |-> "u1"],
                             [id |-> 2, firebase_uid |-> "u2"]}
    /\ summaries = <<[id |-> 1, document_id |-> 2, version |-> 1, summary_text |-> 2]>>
    /\ processing_status =
         [f \in {1, 2} |->
            IF f = 1
            THEN [firebase_uid |-> "u1", file_id |-> 1, status |-> "summarizing",
                  progress |-> 50, message |-> "Generating summary...",
                  expire_at |-> TTL_HOURS]
            ELSE [firebase_uid |-> "u2", file_id |-> 2, status |-> "complete",
                  progress |-> 100, message |-> "Summary ready",
                  expire_at |-> TTL_HOURS]]
    /\ storage = {}
    /\ tasks = <<NewTask("process_text", "u1", 1),
                 [NewTask("process_text", "u2", 2) EXCEPT !.pc = "done"]>>
    /\ reqs = [r \in Reqs |-> IF r = 1 THEN AcceptedText(1, "u1")
                               ELSE IF r = 2 THEN AcceptedText(2, "u2")
                               ELSE IdleReq]
    /\ resp = NoResp
    /\ now = 0
    /\ status_log =
         [f \in FileIds |->
            IF f = 1
            THEN <<[firebase_uid |-> "u1", status |-> "summarizing", progress |-> 50,
                    message |-> "Generating summary..."]>>
            ELSE IF f = 2
            THEN <<[firebase_uid |-> "u2", status |-> "summarizing", progress |-> 50,
                    message |-> "Generating summary..."],
                   [firebase_uid |-> "u2", status |-> "complete", progress |-> 100,
                    message |-> "Summary ready"]>>
            ELSE <<>>]

\* regeneration: the pipeline of an existing submission is run again
Regenerate(f) ==
    /\ Len(tasks) < MaxRuns
    /\ \E t \in 1..Len(tasks) :
         /\ tasks[t].file_id = f
         /\ tasks' = Append(tasks, NewTask(tasks[t].fn, tasks[t].firebase_uid, f))
    /\ UNCHANGED <<stores, reqs, resp, now>>

\* the stages of process_text
TextPipeline(t) ==
    \/ PipeSummarize(t)
    \/ PipeInsert(t)
    \/ PipeComplete(t)

NextRegen ==
    \/ \E t \in TaskIds : TextPipeline(t)
    \/ \E f \in FileIds : Regenerate(f)
    \/ \E f \in FileIds \cup {UnknownId}, a \in PollAuthorizations : GetSummary(f, a)

SpecRegen == TwoTextNotes /\ [][NextRegen]_vars

(* -------------------------- listing scenario --------------------------- *)
\* the state after user o has had a text note accepted, then u2 another one,
\* and the pipeline of the second note has run to its end
TextNotes(o) ==
    /\ users_profile =
         IF o = "u2" THEN <<[firebase_uid |-> "u2", email |-> NULL]>>
         ELSE <<[firebase_uid |-> o, email |-> NULL],
                [firebase_uid |-> "u2", email |-> NULL]>>
    /\ files = <<[file_id |-> 1, firebase_uid |-> o, file_type |-> "url"],
                 [file_id |-> 2, firebase_uid |-> "u2", file_type |-> "url"]>>
    /\ documents_metadata = {[id |-> 1, firebase_uid |-> o],
                             [id |-> 2, firebase_uid |-> "u2"]}
    /\ summaries = <<[id |-> 1, document_id |-> 2, version |-> 1, summary_text |-> 2]>>
    /\ processing_status =
         [f \in {1, 2} |->
            IF f = 1
            THEN [firebase_uid |-> o, file_id |-> 1, status |-> "summarizing",
                  progress |-> 50, message |-> "Generating summary...",
                  expire_at |-> TTL_HOURS]
            ELSE [firebase_uid |-> "u2", file_id |-> 2, status |-> "complete",
                  progress |-> 100, message |-> "Summary ready",
                  expire_at |-> TTL_HOURS]]
    /\ storage = {}
    /\ tasks = <<NewTask("process_text", o, 1),
                 [NewTask("process_text", "u2", 2) EXCEPT !.pc = "done"]>>
    /\ reqs = [r \in Reqs |->
                 IF r = 1 THEN AcceptedText(1, o)
                 ELSE IF r = 2
                 THEN IF o = "u2"
                      THEN [AcceptedText(2, "u2") EXCEPT
                              !.found = TRUE, !.wrote = @ \ {"users_profile"}]
                      ELSE AcceptedText(2, "u2")
                 ELSE IdleReq]
    /\ resp = NoResp
    /\ now = 0
    /\ status_log =
         [f \in FileIds |->
            IF f = 1
            THEN <<[firebase_uid |-> o, status |-> "summarizing", progress |-> 50,
                    message |-> "Generating summary..."]>>
            ELSE IF f = 2
            THEN <<[firebase_uid |-> "u2", status |-> "summarizing", progress |-> 50,
                    message |-> "Generating summary..."],
                   [firebase_uid |-> "u2", status |-> "complete", progress |-> 100,
                    message |-> "Summary ready"]>>
            ELSE <<>>]

\* the notes are summarized, regenerated and listed
NextShelf ==
    \/ \E t \in TaskIds : TextPipeline(t)
    \/ \E f \in FileIds : Regenerate(f)
    \/ \E a \in PollAuthorizations : GetMaterials(a)

\* the second note is u2's; the first is u1's or u2's
ShelfInit == \E o \in Users : TextNotes(o)

SpecShelf == ShelfInit /\ [][NextShelf]_vars

(* ======================================================================= *)
(* Properties                                                              *)
(* ======================================================================= *)
Last(L) == L[Len(L)]

\* every identifier a client may ask about
AskedIds == FileIds \cup {UnknownId}

\* the status writes made so far for an identifier
StatusLog(f) == IF f \in FileIds THEN status_log[f] ELSE <<>>

\* the Summary rows of a submission
SummaryRows(f) == {i \in 1..Len(summaries) : summaries[i].document_id = f}

\* C1: get_summary answers 403, with no summary field, to every caller who is
\* not the owner of an existing Submission, whether or not Summary rows exist
C1_NonOwnerDenied ==
    \A f \in AskedIds, caller \in Users :
      \A i \in 1..Len(files) :
        (files[i].file_id = f /\ files[i].firebase_uid # caller) =>
          \A rsp \in get_summary(f, caller) :
            /\ rsp.status_code = 403
            /\ rsp.id = 0 /\ rsp.document_id = 0 /\ rsp.version = 0

\* a non-owner has been answered 403 for a submission that has a Summary row
C1_Witness ==
    /\ resp.op = "get_summary"
    /\ resp.status_code = 403
    /\ SummaryRows(resp.file_id) # {}
    /\ \E i \in 1..Len(files) :
         files[i].file_id = resp.file_id /\ files[i].firebase_uid # resp.caller

\* C2: get_status answers 404 when no status was ever set for the id, 403 when
\* the document's owner is not the caller, and otherwise the status, progress
\* and message of the most recent set() for that id
C2_StatusRead ==
    \A f \in AskedIds, caller \in Users :
      LET L == StatusLog(f)
          rsp == get_status(f, caller) IN
      IF L = <<>>
      THEN rsp.status_code = 404
      ELSE IF Last(L).firebase_uid # caller
      THEN rsp.status_code = 403 /\ rsp.status = "none" /\ rsp.message = "none"
      ELSE /\ rsp.status_code = 200
           /\ rsp.status = Last(L).status
           /\ rsp.progress = Last(L).progress
           /\ rsp.message = Last(L).message

\* the owner has read a status that was written over an earlier one
C2_Witness ==
    /\ resp.op = "get_status"
    /\ resp.status_code = 200
    /\ Len(StatusLog(resp.file_id)) >= 3
    /\ resp.status = Last(StatusLog(resp.file_id)).status
    /\ resp.message = Last(StatusLog(resp.file_id)).message

\* the status sequence of each kind of submission
KindOrder(op) ==
    CASE op = "upload_file" ->
           <<[status |-> "uploading", progress |-> 10],
             [status |-> "uploaded", progress |-> 25],
             [status |-> "extracting", progress |-> 40],
             [status |-> "summarizing", progress |-> 70],
             [status |-> "complete", progress |-> 100]>>
      [] op = "upload_url" ->
           <<[status |-> "extracting", progress |-> 30],
             [status |-> "summarizing", progress |-> 70],
             [status |-> "complete", progress |-> 100]>>
      [] OTHER ->
           <<[status |-> "summarizing", progress |-> 50],
             [status |-> "complete", progress |-> 100]>>

Label(w) == [status |-> w.status, progress |-> w.progress]

ErrorLabel == [status |-> "error", progress |-> 0]

\* the number of writes before position i that are not error(0)
Advances(L, i) == Cardinality({j \in 1..(i - 1) : Label(L[j]) # ErrorLabel})

\* C3: every status write for a submission is error(0) or the next label, with
\* its progress value, of the sequence of the submission's kind
C3_StatusOrder ==
    \A r \in Reqs :
      LET L == status_log[uuid4(r)]
          K == KindOrder(reqs[r].op) IN
      \A i \in 1..Len(L) :
        \/ Label(L[i]) = ErrorLabel
        \/ /\ Advances(L, i) + 1 <= Len(K)
           /\ Label(L[i]) = K[Advances(L, i) + 1]

\* a binary-file submission has gone through its five stages, and another
\* submission has ended in error
C3_Witness ==
    \E r1, r2 \in Reqs :
      /\ reqs[r1].op = "upload_file"
      /\ Len(status_log[uuid4(r1)]) = 5
      /\ Last(status_log[uuid4(r1)]).status = "complete"
      /\ status_log[uuid4(r2)] # <<>>
      /\ Last(status_log[uuid4(r2)]).status = "error"

\* C4: successive reads of one submission's status by its owner see a progress
\* that does not decrease while the status is not error
C4_ProgressMonotone ==
    [][/\ (/\ resp.op = "get_status" /\ resp.status_code = 200
           /\ resp'.op = "get_status" /\ resp'.status_code = 200
           /\ resp'.file_id = resp.file_id
           /\ resp.status # "error" /\ resp'.status # "error")
          => resp'.progress >= resp.progress
       /\ \A f \in DOMAIN processing_status \cap DOMAIN processing_status' :
            (processing_status[f].status # "error"
               /\ processing_status'[f].status # "error")
              => processing_status'[f].progress >= processing_status[f].progress
      ]_vars

\* a poll has seen "uploaded" and the pipeline has written two stages since
C4_Witness ==
    /\ resp.op = "get_status"
    /\ resp.status_code = 200
    /\ resp.status = "uploaded"
    /\ resp.file_id \in DOMAIN processing_status
    /\ processing_status[resp.file_id].status = "summarizing"

\* C5: once the last status written for a submission is error(0), no status is
\* written for it again, none of its tasks is running or is added, and no
\* Summary row is appended for it
C5_ErrorTerminal ==
    [][\A f \in FileIds :
         (status_log[f] # <<>> /\ Last(status_log[f]).status = "error") =>
           /\ status_log'[f] = status_log[f]
           /\ \A t \in DOMAIN tasks : tasks[t].file_id = f => tasks[t].pc = "done"
           /\ \A t \in DOMAIN tasks' :
                tasks'[t].file_id = f => (t \in DOMAIN tasks /\ tasks'[t] = tasks[t])
           /\ SummaryRows(f)' = SummaryRows(f)
      ]_vars

\* one submission failed during intake and another in its pipeline, and both
\* requests are over
C5_Witness ==
    \E f1, f2 \in FileIds :
      /\ status_log[f1] # <<>> /\ Last(status_log[f1]).status = "error"
      /\ status_log[f2] # <<>> /\ Last(status_log[f2]).status = "error"
      /\ \A t \in DOMAIN tasks : tasks[t].file_id # f1
      /\ \E t \in DOMAIN tasks : tasks[t].file_id = f2 /\ tasks[t].pc = "done"

C7_LatestIsMaxVersion ==
    \A f \in AskedIds, caller \in Users :
      LET owned == \E i \in 1..Len(files) :
                     files[i].file_id = f /\ files[i].firebase_uid = caller
          known == \E i \in 1..Len(files) : files[i].file_id = f IN
      /\ ~known => \A rsp \in get_summary(f, caller) : rsp.status_code = 404
      /\ owned =>
           \A rsp \in get_summary(f, caller) :
             IF SummaryRows(f) = {}
             THEN rsp.status_code = 404
             ELSE /\ rsp.status_code = 200
                  /\ rsp.document_id = f
                  /\ rsp.id \in SummaryRows(f)
                  /\ summaries[rsp.id].version = rsp.version
                  /\ \A i \in SummaryRows(f) : summaries[i].version <= rsp.version

\* the owner has been given version 2 of a submission whose last written row
\* has version 1, while the other submission has a row too
C7_Witness ==
    /\ resp.op = "get_summary"
    /\ resp.status_code = 200
    /\ resp.version = 2
    /\ \E i \in SummaryRows(resp.file_id) :
         /\ summaries[i].version = 1
         /\ \A j \in SummaryRows(resp.file_id) : j <= i
    /\ \E g \in FileIds : g # resp.file_id /\ SummaryRows(g) # {}

\* C8: a status read after the document's expiry answers as a read of an id
\* that was never written does
C8_ExpiredReadsNotFound ==
    \A f \in DOMAIN processing_status, caller \in Users :
      now > processing_status[f].expire_at =>
        get_status(f, caller).status_code = get_status(UnknownId, caller).status_code

\* C9: a status document keeps the expiry timestamp it was created with
C9_ExpiryFixed ==
    [][\A f \in DOMAIN processing_status \cap DOMAIN processing_status' :
         processing_status'[f].expire_at = processing_status[f].expire_at]_vars

\* the stores hold nothing under the identifier request r would have drawn
NothingStoredFor(r) ==
    /\ \A i \in 1..Len(files) : files[i].file_id # uuid4(r)
    /\ \A m \in documents_metadata : m.id # uuid4(r)
    /\ \A b \in storage : b.file_id # uuid4(r)
    /\ uuid4(r) \notin DOMAIN processing_status
    /\ status_log[uuid4(r)] = <<>>
    /\ \A t \in DOMAIN tasks : tasks[t].file_id # uuid4(r)

\* C10 as stated: a request rejected with 400 has written to no store, the
\* UserProfile table included, and has scheduled no task
C10_NoWriteBefore400 ==
    \A r \in Reqs :
      reqs[r].status_code = 400 =>
        /\ reqs[r].wrote = {}
        /\ reqs[r].scheduled = 0
        /\ NothingStoredFor(r)

\* C10 amended: a request rejected with 400 has written to no store other than
\* the UserProfile table and has scheduled no task
C10_OnlyProfileBefore400 ==
    \A r \in Reqs :
      reqs[r].status_code = 400 =>
        /\ reqs[r].wrote \subseteq {"users_profile"}
        /\ reqs[r].scheduled = 0
        /\ NothingStoredFor(r)

\* an upload was rejected with 400 after it had created the caller's profile
C10_Witness ==
    \E r \in Reqs :
      /\ reqs[r].status_code = 400
      /\ reqs[r].content_type \notin DOMAIN SUPPORTED_TYPES
      /\ reqs[r].wrote = {"users_profile"}
      /\ \E i \in 1..Len(users_profile) : users_profile[i].firebase_uid = reqs[r].uid

\* the UserProfile rows stored for an owner identity
ProfilesOf(u) == {i \in 1..Len(users_profile) : users_profile[i].firebase_uid = u}

\* C11: at most one UserProfile row exists for each owner identity, also when
\* several requests of one user interleave between the select and the insert
C11_OneProfilePerOwner ==
    \A u \in Users : Cardinality(ProfilesOf(u)) <= 1

\* the stored email of a row is set: a call may no longer change it
EmailsKept ==
    \A i \in 1..Len(users_profile) :
      users_profile[i].email # NULL =>
        /\ i <= Len(users_profile')
        /\ users_profile'[i] = users_profile[i]

\* the table already holds what a call of request r would store: a row of its
\* user, with an email unless the call supplies none
AlreadyStored(r) ==
    /\ ProfilesOf(reqs[r].uid) # {}
    /\ reqs[r].email # NULL =>
          \A i \in ProfilesOf(reqs[r].uid) : users_profile[i].email # NULL

\* C12: ensure_user_profile never changes an email that is set, whatever calls
\* run later or interleave with it, and a call whose arguments the table
\* already reflects leaves the table unchanged
C12_IdempotentUpsert ==
    [][/\ EmailsKept
       /\ \A r \in Reqs :
            (reqs[r].pc = "ensure_write" /\ reqs'[r].pc # "ensure_write"
               /\ AlreadyStored(r)) => users_profile' = users_profile]_vars

\* the position of a Submission record in the order of creation
Created(f) == CHOOSE i \in 1..Len(files) : files[i].file_id = f

\* C13: get_materials returns the caller's Submissions, each once, none of
\* another user, latest creation first; has_summary says whether the Submission
\* has a Summary row, and latest_summary is the text of a row with its greatest
\* version, None without rows
C13_ListMaterials ==
    \A caller \in Users : \A m \in get_materials(caller) :
      /\ {m[k].file_id : k \in 1..Len(m)} =
           {files[i].file_id : i \in {j \in 1..Len(files) :
                                        files[j].firebase_uid = caller}}
      /\ \A k, l \in 1..Len(m) :
           k < l => /\ m[k].file_id # m[l].file_id
                    /\ Created(m[k].file_id) > Created(m[l].file_id)
      /\ \A k \in 1..Len(m) :
           LET rows == SummaryRows(m[k].file_id) IN
           /\ m[k].has_summary <=> rows # {}
           /\ IF rows = {}
              THEN m[k].latest_summary = None
              ELSE \E i \in rows :
                     /\ m[k].latest_summary = summaries[i].summary_text
                     /\ \A j \in rows : summaries[j].version <= summaries[i].version

\* a user has listed two notes: the later one first, with the text of its
\* regenerated summary (version 2), the earlier one without a summary
C13_Witness ==
    /\ resp.op = "get_materials"
    /\ resp.status_code = 200
    /\ resp.materials \in get_materials(resp.caller)
    /\ Len(resp.materials) = 2
    /\ resp.materials[1].has_summary
    /\ \E i \in SummaryRows(resp.materials[1].file_id) :
         /\ summaries[i].version = 2
         /\ summaries[i].summary_text = resp.materials[1].latest_summary
    /\ ~resp.materials[2].has_summary
    /\ resp.materials[2].latest_summary = None

\* the tasks scheduled for a submission id
TasksOf(f) == {t \in DOMAIN tasks : tasks[t].file_id = f}

\* C14: an intake call that has returned success has scheduled exactly one task,
\* carrying the submission's id and owner and the function of its kind; a call
\* that has not, or that failed with 401, 400 or 500, has scheduled none
C14_OneTaskPerAccepted ==
    \A r \in Reqs :
      IF reqs[r].pc = "done" /\ reqs[r].status_code = 200
      THEN /\ reqs[r].scheduled = 1
           /\ reqs[r].file_id = uuid4(r)
           /\ Cardinality(TasksOf(uuid4(r))) = 1
           /\ \A t \in TasksOf(uuid4(r)) :
                /\ tasks[t].firebase_uid = reqs[r].uid
                /\ tasks[t].fn = BackgroundFn(reqs[r].op)
      ELSE /\ reqs[r].scheduled = 0
           /\ TasksOf(uuid4(r)) = {}
           /\ reqs[r].pc = "done" => reqs[r].status_code \in {400, 401, 500}

\* one call was accepted and has its task; another, of the same user, failed
\* with 500 after its Submission record was stored and has none
C14_Witness ==
    \E r, q \in Reqs :
      /\ reqs[r].pc = "done" /\ reqs[r].status_code = 200
      /\ Cardinality(TasksOf(reqs[r].file_id)) = 1
      /\ reqs[q].pc = "done" /\ reqs[q].status_code = 500
      /\ reqs[q].uid = reqs[r].uid
      /\ "files" \in reqs[q].wrote
      /\ TasksOf(uuid4(q)) = {}

\* the run of task t has stopped on a failure of extraction or summarization
Failed(t) ==
    /\ tasks[t].pc = "done"
    /\ Last(status_log[tasks[t].file_id]).status = "error"

\* C15: a pipeline run that failed has left the status error(0) with a message
\* and has written no Summary row; the intake request of the submission keeps
\* its success, and get_summary by the owner answers 404 "Summary not found"
C15_FailedRunLeavesNoSummary ==
    \A t \in DOMAIN tasks :
      Failed(t) =>
        LET f == tasks[t].file_id IN
        /\ Last(status_log[f]).progress = 0
        /\ Last(status_log[f]).message \in
             {"extraction failed", "summarization failed", "store write failed"}
        /\ processing_status[f].status = "error" /\ processing_status[f].progress = 0
        /\ \A i \in 1..Len(summaries) : summaries[i].summary_text # t
        /\ SummaryRows(f) = {}
        /\ \A r \in Reqs : reqs[r].file_id = f => reqs[r].status_code = 200
        /\ \A rsp \in get_summary(f, tasks[t].firebase_uid) :
             rsp.status_code = 404 /\ rsp.message = "Summary not found"

\* the owner has asked for the summary of a submission whose run failed in
\* summarization and has been answered 404
C15_Witness ==
    /\ resp.op = "get_summary"
    /\ resp.status_code = 404
    /\ resp.message = "Summary not found"
    /\ \E t \in DOMAIN tasks :
         /\ Failed(t)
         /\ tasks[t].file_id = resp.file_id
         /\ tasks[t].firebase_uid = resp.caller
         /\ Last(status_log[resp.file_id]).message = "summarization failed"

\* the headers get_firebase_user must reject
BadHeaders == {"missing", "other scheme", "invalid token"}

\* C16: a request to an intake or read route whose Authorization header is
\* missing, has another scheme or carries a token that does not verify ends
\* with 401: it writes no profile, Submission, metadata, status or content,
\* schedules no task, and its response carries no stored data
C16_RejectedBeforeSideEffects ==
    [][/\ \A r \in Reqs :
            reqs'[r].header \in BadHeaders =>
              /\ reqs'[r].pc = "done" /\ reqs'[r].status_code = 401
              /\ reqs'[r].wrote = {} /\ reqs'[r].scheduled = 0
              /\ reqs'[r].uid = "none" /\ reqs'[r].file_id = 0
              /\ reqs'[r] # reqs[r] => UNCHANGED <<stores, tasks>>
       /\ resp'.header \in BadHeaders =>
            /\ resp'.status_code = 401
            /\ resp' = [NoResp EXCEPT !.op = resp'.op, !.file_id = resp'.file_id,
                                      !.status_code = 401, !.header = resp'.header]
            /\ resp' # resp => UNCHANGED <<stores, tasks>>]_vars

\* an upload without a bearer scheme was rejected, and a read without a header
\* asked for a submission that has a status document and a Summary row
C16_Witness ==
    /\ \E r \in Reqs :
         /\ reqs[r].header = "other scheme"
         /\ reqs[r].status_code = 401
         /\ reqs[r].op = "upload_file"
    /\ resp.header = "missing"
    /\ resp.op = "get_summary"
    /\ resp.status_code = 401
    /\ SummaryRows(resp.file_id) # {}
    /\ resp.file_id \in DOMAIN processing_status

\* a Submission record with this id is stored
Registered(f) == \E i \in 1..Len(files) : files[i].file_id = f

\* a status document was written for this id
StatusWritten(f) == f \in DOMAIN processing_status /\ status_log[f] # <<>>

\* C17 as stated: for every kind of submission the record is created before the
\* status document is first written and the task is scheduled after both, so a
\* status document for an id implies a Submission record with that id
C17_StatusImpliesRecord ==
    \A f \in FileIds :
      /\ StatusWritten(f) => Registered(f)
      /\ TasksOf(f) # {} => StatusWritten(f)

\* C17 amended: a scheduled task implies the record and a status document; for a
\* URL or a text the status document implies the record; for a file the status
\* document is written first, so there the record implies the status document
C17_IntakeOrder ==
    \A r \in Reqs :
      LET f == uuid4(r) IN
      /\ TasksOf(f) # {} => Registered(f) /\ StatusWritten(f)
      /\ reqs[r].op \in {"upload_url", "upload_text"} =>
           (StatusWritten(f) => Registered(f))
      /\ reqs[r].op = "upload_file" => (Registered(f) => StatusWritten(f))
      /\ reqs[r].op = "none" => ~Registered(f) /\ ~StatusWritten(f)

\* a file upload has failed before its record was stored and has left a status
\* document, while a URL of the same user has its record, status and task
C17_Witness ==
    \E r, q \in Reqs :
      /\ reqs[r].op = "upload_file" /\ reqs[r].status_code = 500
      /\ StatusWritten(uuid4(r)) /\ ~Registered(uuid4(r))
      /\ processing_status[uuid4(r)].status = "error"
      /\ reqs[q].op = "upload_url" /\ reqs[q].uid = reqs[r].uid
      /\ Registered(uuid4(q)) /\ StatusWritten(uuid4(q)) /\ TasksOf(uuid4(q)) # {}

\* C18: once an intake call has finished, with success or with a failure, a
\* primary record exists for its id exactly if a companion record with the
\* same id and the same owner exists
C18_RegistryPair ==
    \A r \in Reqs :
      reqs[r].pc = "done" =>
        /\ \A i \in 1..Len(files) :
             files[i].file_id = uuid4(r) =>
               [id |-> uuid4(r), firebase_uid |-> files[i].firebase_uid]
                 \in documents_metadata
        /\ \A m \in documents_metadata :
             m.id = uuid4(r) =>
               \E i \in 1..Len(files) :
                 files[i].file_id = m.id /\ files[i].firebase_uid = m.firebase_uid

\* the status document of a submission says complete(100)
Complete(f) ==
    /\ f \in DOMAIN processing_status
    /\ processing_status[f].status = "complete"
    /\ processing_status[f].progress = 100

DocOf(f) == IF f \in DOMAIN processing_status THEN <<processing_status[f]>> ELSE <<>>

RecordsOf(f) == SelectSeq(files, LAMBDA row : row.file_id = f)

MetaOf(f) == {m \in documents_metadata : m.id = f}

SummariesOf(f) == SelectSeq(summaries, LAMBDA row : row.document_id = f)

DataOf(f) == <<DocOf(f), RecordsOf(f), SummariesOf(f)>>

\* C20: a step of the intake request or of a pipeline run of one submission,
\* failing or not, leaves the status document, Submission record and Summary
\* rows of every other id unchanged; a pipeline run that stops on a failure
\* changes nothing but the status document of its own id
C20_FailureIsolation ==
    [][/\ \A r \in Reqs :
            reqs'[r] # reqs[r] =>
              \A g \in FileIds \ {uuid4(r)} : DataOf(g)' = DataOf(g)
       /\ \A t \in DOMAIN tasks :
            tasks'[t] # tasks[t] =>
              LET f == tasks[t].file_id IN
              /\ \A g \in FileIds \ {f} : DataOf(g)' = DataOf(g)
              /\ (tasks'[t].pc = "done" /\ Last(status_log'[f]).status = "error") =>
                   /\ RecordsOf(f)' = RecordsOf(f)
                   /\ MetaOf(f)' = MetaOf(f)
                   /\ SummariesOf(f)' = SummariesOf(f)
                   /\ UNCHANGED <<users_profile, files, documents_metadata,
                                  summaries, storage>>
                   /\ DocOf(f)'[1].status = "error" /\ DocOf(f)'[1].progress = 0]_vars

\* the run of one submission has failed: its record and metadata are stored,
\* its status is error(0), and the other submission is complete with its
\* Summary row
C20_Witness ==
    \E t \in DOMAIN tasks : \E g \in FileIds :
      /\ Failed(t)
      /\ g # tasks[t].file_id
      /\ RecordsOf(tasks[t].file_id) # <<>>
      /\ MetaOf(tasks[t].file_id) # {}
      /\ DocOf(tasks[t].file_id)[1].status = "error"
      /\ Complete(g)
      /\ SummariesOf(g) # <<>>

\* the intake call of request r has returned success
Accepted(r) == reqs[r].pc = "done" /\ reqs[r].status_code = 200

\* the status document of a submission says complete(100) or error(0)
Terminal(f) ==
    /\ f \in DOMAIN processing_status
    /\ \/ processing_status[f].status = "complete" /\ processing_status[f].progress = 100
       \/ processing_status[f].status = "error" /\ processing_status[f].progress = 0

StoredOwners ==
    {files[i].firebase_uid : i \in 1..Len(files)}
      \cup {m.firebase_uid : m \in documents_metadata}
      \cup {processing_status[f].firebase_uid : f \in DOMAIN processing_status}

\* C22: every owner identity stored in a Submission record, a companion
\* metadata record or a status document has a UserProfile row, and a request
\* that has written to another store or scheduled a task has one too
C22_ProfileBeforeMutation ==
    /\ \A u \in StoredOwners : ProfilesOf(u) # {}
    /\ \A r \in Reqs :
         (reqs[r].wrote \ {"users_profile"} # {} \/ reqs[r].scheduled > 0) =>
           ProfilesOf(reqs[r].uid) # {}

\* a first request of a user has created the profile and then stored its
\* Submission record, companion metadata and status document
C22_Witness ==
    \E r \in Reqs :
      /\ ~reqs[r].found
      /\ "users_profile" \in reqs[r].wrote
      /\ ProfilesOf(reqs[r].uid) # {}
      /\ \E i \in 1..Len(files) :
           files[i].file_id = uuid4(r) /\ files[i].firebase_uid = reqs[r].uid
      /\ [id |-> uuid4(r), firebase_uid |-> reqs[r].uid] \in documents_metadata
      /\ uuid4(r) \in DOMAIN processing_status
      /\ processing_status[uuid4(r)].firebase_uid = reqs[r].uid

====
